---- MODULE Spec2Model ----
(***************************************************************************)
(* Verification model of the SolidityShield rule-matching and scoring      *)
(* engine (client/src/lib/security-rules.ts).                              *)
(*                                                                         *)
(* Source text is a sequence of one-character strings.  A regular          *)
(* expression is a syntax tree; Ends gives, in the backtracking priority   *)
(* order of the JavaScript matcher, the positions at which a match that    *)
(* starts at a given position can end.  Positions inside the matcher are   *)
(* 1-based (TLA+ sequences); match.index and lastIndex are 0-based as in   *)
(* JavaScript.                                                             *)
(*                                                                         *)
(* Numbers: a category score is a multiple of 1/20 (the scaling factor is  *)
(* max(10, 20 - n)/20), so scores are kept in twentieths (Scale == 20).    *)
(* The display texts of a finding (title, description, recommendation)    *)
(* are constants determined by its id and are not carried.                 *)
(***************************************************************************)
EXTENDS Integers, Sequences, FiniteSets, TLC

VARIABLES
    input,              \* the string handed to analyzeCode
    results,            \* the findings list returned by the call, or Pending
    issuesByCategory,   \* the four category buckets of the call
    scores,             \* the AnalysisScores returned, or NoScores
    lastIndex,          \* lastIndex of each global regex of the rule table
    matched,            \* per rule, the offsets of the matches the call iterated over
    seen,               \* history: an earlier call, remembered for comparison
    edits,              \* number of pieces the caller has put into input
    securityChecks,     \* the rows of the security_checks table, in insertion order
    idSeq,              \* last value handed out by the serial sequence of the id column
    created,            \* history: what each createSecurityCheck was given and returned
    response,           \* what the last storage read returned
    reply,              \* the last HTTP request and how it was answered
    pageCode,           \* page state: the editor's text (code)
    shown,              \* page state: the displayed results and scores
    analyzing,          \* page state: the analyzing flag
    analyzeRun,         \* the current or last handleAnalyze run
    toast,              \* the last notification the page has shown
    report              \* the arguments of the last generateAuditReport call

engineVars == <<input, results, issuesByCategory, scores, lastIndex, matched, seen, edits>>
storeVars  == <<securityChecks, idSeq, created, response>>
routeVars  == <<reply>>
pageVars   == <<pageCode, shown, analyzing, analyzeRun, toast, report>>

vars == <<input, results, issuesByCategory, scores, lastIndex, matched, seen, edits,
          securityChecks, idSeq, created, response,
          reply, pageCode, shown, analyzing, analyzeRun, toast, report>>

----------------------------------------------------------------------------
(* Strings *)

Chars(str) == [i \in 1..Len(str) |-> SubSeq(str, i, i)]

Range(f) == {f[i] : i \in DOMAIN f}

WordChars ==
    Range(Chars("abcdefghijklmnopqrstuvwxyzABCDEFGHIJKLMNOPQRSTUVWXYZ0123456789_"))

WhiteSpace == {" ", "\n", "\t", "\r", "\f"}

Min(a, b) == IF a <= b THEN a ELSE b
Max(a, b) == IF a >= b THEN a ELSE b

\* String.prototype.slice(from, to) with 0-based, end-exclusive offsets
Slice(s, from, to) == SubSeq(s, from + 1, Min(to, Len(s)))

\* String.prototype.indexOf(sub) >= 0
Includes(s, sub) ==
    \E i \in 1..(Len(s) - Len(sub) + 1) : \A k \in 1..Len(sub) : s[i + k - 1] = sub[k]

\* String.prototype.split(sep) for a one-character separator: the segments
\* between separators; the empty string splits into one empty segment.
Split(s, sep) ==
    LET at     == {i \in 1..Len(s) : s[i] = sep}
        n      == Cardinality(at)
        \* position of the k-th separator; 0 before the first, Len(s)+1 after the last
        pos(k) == IF k = 0 THEN 0
                  ELSE IF k > n THEN Len(s) + 1
                  ELSE CHOOSE i \in at : Cardinality({j \in at : j < i}) = k - 1
    IN  [k \in 1..(n + 1) |-> SubSeq(s, pos(k - 1) + 1, pos(k) - 1)]

----------------------------------------------------------------------------
(* Regular expressions *)

Lit(str)   == [t |-> "lit", s |-> Chars(str)]
Cls(set)   == [t |-> "cls", set |-> set, neg |-> FALSE]
NotCls(set) == [t |-> "cls", set |-> set, neg |-> TRUE]
Cat(parts) == [t |-> "cat", parts |-> parts]
Alt(parts) == [t |-> "alt", parts |-> parts]
Star(c)    == [t |-> "star", set |-> c.set, neg |-> c.neg]   \* c* for a class c
Plus(x)    == Cat(<<x, Star(x)>>)
Opt(x)     == Alt(<<x, Cat(<<>>)>>)
NotAhead(x) == [t |-> "nla", x |-> x]
WordB      == [t |-> "wb"]

S == Cls(WhiteSpace)
W == Cls(WordChars)

IsWordAt(s, i) == i >= 1 /\ i <= Len(s) /\ s[i] \in WordChars

InClass(re, ch) == (ch \in re.set) /= re.neg

\* Length of the longest run of characters of the class of re from position i
RunLength(re, s, i) ==
    LET stops == {j \in i..Len(s) : ~InClass(re, s[j])}
    IN  IF stops = {} THEN Len(s) + 1 - i
        ELSE (CHOOSE j \in stops : \A k \in stops : j <= k) - i

\* Concatenation of the sequences ss[lo], ..., ss[hi]
RECURSIVE Flatten(_, _, _)
Flatten(ss, lo, hi) ==
    IF lo > hi THEN <<>>
    ELSE IF lo = hi THEN ss[lo]
    ELSE LET mid == (lo + hi) \div 2
         IN  Flatten(ss, lo, mid) \o Flatten(ss, mid + 1, hi)

RECURSIVE Ends(_, _, _)
RECURSIVE CatEnds(_, _, _)
RECURSIVE AltEnds(_, _, _)

\* The end positions of the matches of re in s that start at position i,
\* most preferred first.
Ends(re, s, i) ==
    CASE re.t = "lit" ->
            IF /\ i + Len(re.s) - 1 <= Len(s)
               /\ \A k \in 1..Len(re.s) : s[i + k - 1] = re.s[k]
            THEN <<i + Len(re.s)>> ELSE <<>>
      [] re.t = "cls" ->
            IF i <= Len(s) /\ InClass(re, s[i]) THEN <<i + 1>> ELSE <<>>
      [] re.t = "cat" -> CatEnds(re.parts, s, i)
      [] re.t = "alt" -> AltEnds(re.parts, s, i)
      [] re.t = "star" ->
            \* greedy: the longest run first, then one character less, ...
            LET run == RunLength(re, s, i)
            IN  [k \in 1..(run + 1) |-> i + run + 1 - k]
      [] re.t = "nla" -> IF Ends(re.x, s, i) = <<>> THEN <<i>> ELSE <<>>
      [] re.t = "wb" -> IF IsWordAt(s, i - 1) /= IsWordAt(s, i) THEN <<i>> ELSE <<>>

\* The first part from i, then the remaining parts from each of its ends
CatEnds(parts, s, i) ==
    IF parts = <<>> THEN <<i>>
    ELSE LET froms == Ends(Head(parts), s, i)
             rest  == [k \in 1..Len(froms) |-> CatEnds(Tail(parts), s, froms[k])]
         IN  Flatten(rest, 1, Len(froms))

AltEnds(parts, s, i) ==
    IF parts = <<>> THEN <<>>
    ELSE Ends(Head(parts), s, i) \o AltEnds(Tail(parts), s, i)

\* RegExpBuiltinExec: the first match at or after 0-based offset from, as
\* [index, end] (both 0-based, end exclusive), or NoMatch
NoMatch == [index |-> -1, end |-> -1]

\* ends[i]: the ends of the matches that start at 0-based offset i
ExecIn(ends, from) ==
    LET starts == {i \in DOMAIN ends : i >= from /\ ends[i] /= <<>>}
    IN  IF starts = {} THEN NoMatch
        ELSE LET first == CHOOSE i \in starts : \A j \in starts : i <= j
             IN  [index |-> first, end |-> ends[first][1] - 1]

\* The characters a match of re can begin with: [any, set], any = TRUE when
\* the match may be empty or begin with a character outside a known set
RECURSIVE FirstChars(_)
RECURSIVE FirstOfCat(_)
RECURSIVE FirstOfAlt(_)
FirstChars(re) ==
    CASE re.t = "lit" -> IF re.s = <<>> THEN [any |-> TRUE, set |-> {}]
                         ELSE [any |-> FALSE, set |-> {re.s[1]}]
      [] re.t = "cls" -> IF re.neg THEN [any |-> TRUE, set |-> {}]
                         ELSE [any |-> FALSE, set |-> re.set]
      [] re.t = "cat" -> FirstOfCat(re.parts)
      [] re.t = "alt" -> FirstOfAlt(re.parts)
      [] OTHER -> [any |-> TRUE, set |-> {}]

FirstOfCat(parts) ==
    IF parts = <<>> THEN [any |-> TRUE, set |-> {}]
    ELSE IF Head(parts).t \in {"wb", "nla"} THEN FirstOfCat(Tail(parts))
    ELSE FirstChars(Head(parts))

FirstOfAlt(parts) ==
    IF parts = <<>> THEN [any |-> FALSE, set |-> {}]
    ELSE LET a == FirstChars(Head(parts))
             b == FirstOfAlt(Tail(parts))
         IN  [any |-> a.any \/ b.any, set |-> a.set \cup b.set]

\* The matcher is tried only at the offsets whose character can begin a match
Candidates(first, s, from) ==
    IF first.any THEN from..Len(s)
    ELSE {i \in from..(Len(s) - 1) : s[i + 1] \in first.set}

AllEndsWith(re, first, s, from) ==
    [i \in Candidates(first, s, from) |-> Ends(re, s, i + 1)]

AllEnds(re, s, from) == AllEndsWith(re, FirstChars(re), s, from)

Exec(re, s, from) == ExecIn(AllEnds(re, s, from), from)

\* RegExp.prototype.test on a regex without the g flag: starts at 0
Test(re, s) == Exec(re, s, 0) /= NoMatch

----------------------------------------------------------------------------
(* The rule table *)

\* function\s+\w+\s*\([^)]*\)\s*   -- the common head of the function rules
FunctionHead ==
    <<Lit("function"), Plus(S), Plus(W), Star(S), Lit("("),
      Star(NotCls({")"})), Lit(")"), Star(S)>>

ReentrancyRegex ==
    Alt(<<Cat(<<Lit(".transfer"), Star(S), Lit("(")>>),
          Cat(<<Lit(".send"), Star(S), Lit("(")>>)>>)

TxOriginRegex == Lit("tx.origin")

\* Variant: no whitespace allowed between the parameter list and "public"
AccessControlRegexNoSpace ==
    Cat(SubSeq(FunctionHead, 1, Len(FunctionHead) - 1) \o
        <<Lit("public"),
          NotAhead(Alt(<<Cat(<<Plus(S), Lit("view")>>),
                         Cat(<<Plus(S), Lit("pure")>>)>>))>>)

AccessControlRegex ==
    Cat(FunctionHead \o
        <<Lit("public"),
          NotAhead(Alt(<<Cat(<<Plus(S), Lit("view")>>),
                         Cat(<<Plus(S), Lit("pure")>>)>>))>>)

ArithmeticRegex == Alt(<<Lit("+="), Lit("-="), Lit("*="), Lit("/=")>>)

GasLoopRegex ==
    Cat(<<WordB, Alt(<<Lit("for"), Lit("while")>>), Star(S), Lit("("),
          Plus(NotCls({";"})), Lit(";"), Plus(NotCls({";"})), Lit(";"),
          Plus(NotCls({")"})), Lit(")")>>)

StructPackingRegex ==
    Cat(<<Lit("struct"), Plus(S), Plus(W), Star(S), Lit("{"),
          Star(NotCls({"}"})), Lit("bool"), Star(NotCls({"}"})), Lit("}")>>)

VisibilityRegex ==
    Cat(FunctionHead \o
        <<NotAhead(Alt(<<Lit("external"), Lit("public"),
                         Lit("internal"), Lit("private")>>))>>)

RequireRegex ==
    Cat(<<Lit("require"), Star(S), Lit("("), Plus(NotCls({",", ")"})), Lit(")")>>)

Digit == Cls(Range(Chars("0123456789")))

PragmaRegex ==
    Cat(<<Lit("pragma solidity "), Opt(Cls({"^", "~"})), Lit("0."),
          Plus(Digit), Lit("."), Plus(Digit)>>)

UncheckedPaymentRegex ==
    Cat(FunctionHead \o
        <<Lit("external"), Plus(S), Lit("payable"), Star(NotCls({"{"})), Lit("{"),
          Star(S), Star(NotCls({"}"})), Lit("msg.value"), Star(NotCls({"}"})),
          Lit("}")>>)

SafeMathRegex ==
    Cat(<<Lit("using"), Plus(S), Lit("SafeMath"), Plus(S), Lit("for"), Plus(S),
          Lit("uint")>>)

AssemblyRegex ==
    Cat(<<Lit("assembly"), Star(S), Lit("{"), Star(NotCls({"}"})), Lit("}")>>)

MissingEventsRegex ==
    Cat(FunctionHead \o
        <<Lit("public"), Plus(S), Lit("returns"), Star(S), Lit("("),
          Plus(NotCls({")"})), Lit(")"), Star(S), Lit("{"), Star(S),
          Star(NotCls({"}"})), Lit("}")>>)

MappingRegex ==
    Cat(<<Lit("mapping"), Star(S), Lit("("), Plus(NotCls({")"})), Lit(")")>>)

SelfDestructRegex ==
    Cat(FunctionHead \o
        <<Lit("public"), Plus(S), Lit("payable"), Star(NotCls({"{"})), Lit("{"),
          Star(S), Star(NotCls({"}"})), Lit("selfdestruct"), Star(S), Lit("("),
          Star(NotCls({")"})), Lit(")"), Star(NotCls({"}"})), Lit("}")>>)

\* /\b(=|\+=|-=|\*=|\/=)\b/  and  /\bemit\b/  of the MISSING_EVENTS checker
ModifiesStateRegex ==
    Cat(<<WordB, Alt(<<Lit("="), Lit("+="), Lit("-="), Lit("*="), Lit("/=")>>),
          WordB>>)

EmitsEventRegex == Cat(<<WordB, Lit("emit"), WordB>>)

patterns ==
    << [regex |-> ReentrancyRegex, id |-> "REENTRANCY",
        severity |-> "critical", category |-> "security"],
       [regex |-> TxOriginRegex, id |-> "TX_ORIGIN",
        severity |-> "critical", category |-> "security"],
       [regex |-> AccessControlRegex, id |-> "ACCESS_CONTROL",
        severity |-> "high", category |-> "security"],
       [regex |-> ArithmeticRegex, id |-> "ARITHMETIC",
        severity |-> "high", category |-> "security"],
       [regex |-> GasLoopRegex, id |-> "GAS_LOOP",
        severity |-> "medium", category |-> "gas"],
       [regex |-> StructPackingRegex, id |-> "STRUCT_PACKING",
        severity |-> "low", category |-> "gas"],
       [regex |-> VisibilityRegex, id |-> "VISIBILITY_MODIFIER",
        severity |-> "medium", category |-> "code_quality"],
       [regex |-> RequireRegex, id |-> "REQUIRE_MESSAGE",
        severity |-> "low", category |-> "code_quality"],
       [regex |-> PragmaRegex, id |-> "FLOATING_PRAGMA",
        severity |-> "medium", category |-> "best_practices"],
       [regex |-> UncheckedPaymentRegex, id |-> "UNCHECKED_PAYMENT",
        severity |-> "critical", category |-> "security"],
       [regex |-> SafeMathRegex, id |-> "DEPRECATED_SAFEMATH",
        severity |-> "info", category |-> "gas"],
       [regex |-> AssemblyRegex, id |-> "INLINE_ASSEMBLY",
        severity |-> "high", category |-> "security"],
       [regex |-> MissingEventsRegex, id |-> "MISSING_EVENTS",
        severity |-> "medium", category |-> "best_practices"],
       [regex |-> MappingRegex, id |-> "INVALID_MAPPING",
        severity |-> "high", category |-> "code_quality"],
       [regex |-> SelfDestructRegex, id |-> "SELF_DESTRUCT",
        severity |-> "critical", category |-> "security"] >>

Categories == {"security", "gas", "code_quality", "best_practices"}
Severities == {"critical", "high", "medium", "low", "info"}

----------------------------------------------------------------------------
(* Matching and line attribution *)

\* String.prototype.matchAll(regex): the iterator works on a clone of the
\* regex that starts at the original's lastIndex; after an empty match the
\* clone advances by one.  A match is [index, text (match[0]), input].
RECURSIVE MatchAllFrom(_, _, _)
MatchAllFrom(ends, s, from) ==
    LET m == ExecIn(ends, from)
    IN  IF m = NoMatch THEN <<>>
        ELSE <<[index |-> m.index, text |-> SubSeq(s, m.index + 1, m.end), input |-> s]>>
             \o MatchAllFrom(ends, s, IF m.end = m.index THEN m.end + 1 ELSE m.end)

matchAll(s, re, li) == MatchAllFrom(AllEnds(re, s, li), s, li)

\* Variant: the rule's own regex is advanced past its first match
LastIndexAfterMatchAllShared(s, re, li) ==
    LET m == Exec(re, s, li)
    IN  IF m = NoMatch THEN 0 ELSE m.end

\* lastIndex of the rule's own regex once matchAll has been iterated: the
\* clone is advanced, the original is not touched.
LastIndexAfterMatchAll(s, re, li) == li

\* Variant: the text after the match is split instead of the text before it
getLineNumberAfter(match) ==
    LET index == match.index
        lines == Split(Slice(match.input, index, Len(match.input)), "\n")
    IN  Len(lines)

\* Variant: the number of newlines, without the leading line
getLineNumberZeroBased(match) ==
    LET index == match.index
        lines == Split(Slice(match.input, 0, index), "\n")
    IN  Len(lines) - 1

getLineNumber(match) ==
    LET index == match.index
        lines == Split(Slice(match.input, 0, index), "\n")
    IN  Len(lines)

Null == [id |-> "null"]

\* Variant: every rule finding is tagged high
FindingAlwaysHigh(p, match) ==
    [id |-> p.id, severity |-> "high",
     line |-> Len(Split(Slice(match.input, 0, match.index), "\n"))]

\* The object a checker returns for a match of rule p
Finding(p, match) ==
    [id |-> p.id, severity |-> p.severity, line |-> getLineNumber(match)]

\* Variant: the emit test is left out
MissingEventsCheckNoEmitTest(p, match) ==
    LET functionBody  == match.text
        modifiesState == Test(ModifiesStateRegex, functionBody)
    IN  IF modifiesState THEN [id |-> p.id, severity |-> p.severity,
                               line |-> Len(Split(Slice(match.input, 0, match.index), "\n"))]
        ELSE [id |-> "null"]

\* The MISSING_EVENTS checker
MissingEventsCheck(p, match) ==
    LET functionBody  == match.text
        modifiesState == Test(ModifiesStateRegex, functionBody)
        emitsEvent    == Test(EmitsEventRegex, functionBody)
    IN  IF modifiesState /\ ~emitsEvent THEN Finding(p, match) ELSE Null

\* Variant: the snippet is not inspected
InvalidMappingCheckAlways(p, match) ==
    [id |-> p.id, severity |-> p.severity,
     line |-> Len(Split(Slice(match.input, 0, match.index), "\n"))]

\* The INVALID_MAPPING checker
InvalidMappingCheck(p, match) ==
    LET mappingDef == match.text
    IN  IF ~Includes(mappingDef, Chars("=>")) THEN Finding(p, match) ELSE Null

\* pattern.check(match, code)
Check(p, match, code) ==
    CASE p.id = "MISSING_EVENTS"  -> MissingEventsCheck(p, match)
      [] p.id = "INVALID_MAPPING" -> InvalidMappingCheck(p, match)
      [] OTHER -> Finding(p, match)

----------------------------------------------------------------------------
(* Scoring *)

\* Scores are held in units of 1/Scale
Scale == 20

severityWeights ==
    [critical |-> -15, high |-> -10, medium |-> -5, low |-> -2, info |-> -1]

\* issues.reduce((total, issue) => total + severityWeights[issue.severity], 0)
RECURSIVE Deductions(_)
Deductions(issues) ==
    IF issues = <<>> THEN 0
    ELSE Deductions(SubSeq(issues, 1, Len(issues) - 1))
         + severityWeights[issues[Len(issues)].severity]

\* Variant: no softening, the factor is always 1
ScalingFactorNone(n) == Scale

\* Variant: the factor is not held at 0.5
ScalingFactorNoFloor(n) == Scale - n

\* Math.max(0.5, 1 - issues.length / 20), in units of 1/Scale
ScalingFactor(n) == Max(10, Scale - n)

\* Variant: the lower clamp Math.max(0, ...) is missing
calculateCategoryScoreNoFloor(issues) ==
    IF Len(issues) = 0 THEN 100 * Scale
    ELSE Min(100 * Scale, 100 * Scale + Deductions(issues) * ScalingFactor(Len(issues)))

calculateCategoryScore(issues) ==
    IF Len(issues) = 0 THEN 100 * Scale
    ELSE LET deductions       == Deductions(issues)
             scalingFactor    == ScalingFactor(Len(issues))
             scaledDeductions == deductions * scalingFactor
         IN  Max(0, Min(100 * Scale, 100 * Scale + scaledDeductions))

\* Math.round(x) for x = num / den with den > 0: floor(x + 1/2)
MathRound(num, den) == (2 * num + den) \div (2 * den)

\* Variant: the weights 0.4 / 0.25 / 0.2 / 0.15
OverallBlendEarlierWeights(cs) ==
    cs.security * 40 + cs.codeQuality * 25 + cs.bestPractices * 20 + cs.gas * 15

\* The weighted blend, in units of 1/(100 * Scale)
OverallBlend(cs) ==
    cs.security * 35 + cs.codeQuality * 25 + cs.bestPractices * 25 + cs.gas * 15

calculateScores(byCategory) ==
    LET categoryScores ==
            [security      |-> calculateCategoryScore(byCategory.security),
             gas           |-> calculateCategoryScore(byCategory.gas),
             codeQuality   |-> calculateCategoryScore(byCategory.code_quality),
             bestPractices |-> calculateCategoryScore(byCategory.best_practices)]
        overall == MathRound(OverallBlend(categoryScores), 100 * Scale)
    IN  [security      |-> categoryScores.security,
         gas           |-> categoryScores.gas,
         codeQuality   |-> categoryScores.codeQuality,
         bestPractices |-> categoryScores.bestPractices,
         overall       |-> overall * Scale]

----------------------------------------------------------------------------
(* analyzeCode *)

EmptyBuckets ==
    [security |-> <<>>, gas |-> <<>>, code_quality |-> <<>>, best_practices |-> <<>>]

\* Variant: the result is listed but filed in no bucket
PushResultsOnly(acc, category, result) ==
    [acc EXCEPT !.results = Append(@, result)]

\* results.push(result); issuesByCategory[category].push(result)
Push(acc, category, result) ==
    [acc EXCEPT !.results = Append(@, result),
                !.issuesByCategory[category] = Append(@, result)]

\* matches.forEach(match => ...) for one rule, from the k-th match on: the
\* results the checker did not decline are pushed in the order of the matches
ForEachMatch(p, matches, k, code, acc) ==
    LET checked == [j \in 1..(Len(matches) + 1 - k) |-> Check(p, matches[k + j - 1], code)]
        pushed  == SelectSeq(checked, LAMBDA result : result /= Null)
    IN  [acc EXCEPT !.results = @ \o pushed,
                    !.issuesByCategory[p.category] = @ \o pushed]

\* patterns.forEach(pattern => ...) from the k-th rule on
RECURSIVE ForEachPattern(_, _, _, _)
ForEachPattern(k, code, li, acc) ==
    IF k > Len(patterns) THEN acc
    ELSE LET matches == matchAll(code, patterns[k].regex, li[k])
             offsets == [j \in 1..Len(matches) |->
                            [index |-> matches[j].index,
                             end   |-> matches[j].index + Len(matches[j].text)]]
         IN  ForEachPattern(k + 1, code, li,
                            ForEachMatch(patterns[k], matches, 1, code,
                                         [acc EXCEPT !.matched = Append(@, offsets)]))

LicenseFinding == [id |-> "LICENSE", severity |-> "info"]
NatspecFinding == [id |-> "NATSPEC", severity |-> "info"]

\* Variant: the source-wide checks also run on the empty text
GeneralChecksUnguarded(code, acc) ==
    LET a1 == IF ~Includes(code, Chars("SPDX-License-Identifier:"))
              THEN Push(acc, "best_practices", LicenseFinding) ELSE acc
    IN  IF ~Includes(code, Chars("/// @"))
        THEN Push(a1, "code_quality", NatspecFinding) ELSE a1

\* Variant: the NatSpec check runs before the licence check
GeneralChecksNatspecFirst(code, acc) ==
    IF Len(code) > 0
    THEN LET a1 == IF ~Includes(code, Chars("/// @"))
                   THEN Push(acc, "code_quality", NatspecFinding) ELSE acc
         IN  IF ~Includes(code, Chars("SPDX-License-Identifier:"))
             THEN Push(a1, "best_practices", LicenseFinding) ELSE a1
    ELSE acc

\* Variant: each source-wide finding goes into the other's bucket
GeneralChecksSwappedBuckets(code, acc) ==
    IF Len(code) > 0
    THEN LET a1 == IF ~Includes(code, Chars("SPDX-License-Identifier:"))
                   THEN Push(acc, "code_quality", LicenseFinding) ELSE acc
         IN  IF ~Includes(code, Chars("/// @"))
             THEN Push(a1, "best_practices", NatspecFinding) ELSE a1
    ELSE acc

\* The two source-wide checks
GeneralChecks(code, acc) ==
    IF Len(code) > 0
    THEN LET a1 == IF ~Includes(code, Chars("SPDX-License-Identifier:"))
                   THEN Push(acc, "best_practices", LicenseFinding) ELSE acc
             a2 == IF ~Includes(code, Chars("/// @"))
                   THEN Push(a1, "code_quality", NatspecFinding) ELSE a1
         IN  a2
    ELSE acc

\* analyzeCode(code) with the rule table's regexes at lastIndex li
analyzeCode(code, li) ==
    LET acc == GeneralChecks(code,
                   ForEachPattern(1, code, li,
                       [results |-> <<>>, issuesByCategory |-> EmptyBuckets,
                        matched |-> <<>>]))
    IN  [results |-> acc.results,
         issuesByCategory |-> acc.issuesByCategory,
         matched |-> acc.matched,
         scores |-> calculateScores(acc.issuesByCategory)]

\* lastIndex of every rule's regex after the call
LastIndexAfter(code, li) ==
    [k \in DOMAIN patterns |-> LastIndexAfterMatchAll(code, patterns[k].regex, li[k])]

----------------------------------------------------------------------------
(* The security_checks table and DatabaseStorage *)

\* A jsonb column keeps a JSON object as its set of key/value pairs (key
\* order is not kept); reading it builds the object from the pairs.
ToJsonb(arr) == [i \in DOMAIN arr |-> {<<k, arr[i][k]>> : k \in DOMAIN arr[i]}]

FromJsonb(jarr) ==
    [i \in DOMAIN jarr |->
        [k \in {kv[1] : kv \in jarr[i]} |-> (CHOOSE kv \in jarr[i] : kv[1] = k)[2]]]

\* Variant: the sequence hands out the same value again
NextvalStuck(seq) == Max(seq, 1)

\* nextval of the serial sequence behind the id column
Nextval(seq) == seq + 1

\* insert(...).values([insertCheck]): the stored row
InsertedRow(id, insertCheck) ==
    [id |-> id, code |-> insertCheck.code, results |-> ToJsonb(insertCheck.results),
     score |-> insertCheck.score, timestamp |-> insertCheck.timestamp]

\* A row as a select or a returning clause hands it back: a SecurityCheck
Selected(row) ==
    [id |-> row.id, code |-> row.code, results |-> FromJsonb(row.results),
     score |-> row.score, timestamp |-> row.timestamp]

Undefined == [id |-> -1]

\* const [check] = await db.select().from(securityChecks).where(eq(id)); return check
getSecurityCheck(rows, id) ==
    LET found == SelectSeq(rows, LAMBDA row : row.id = id)
    IN  IF found = <<>> THEN Undefined ELSE Selected(found[1])

\* The rows in ascending order of id
RECURSIVE OrderById(_)
OrderById(rows) ==
    IF rows = <<>> THEN <<>>
    ELSE LET low == CHOOSE i \in DOMAIN rows : \A j \in DOMAIN rows :
                        rows[i].id < rows[j].id \/ (rows[i].id = rows[j].id /\ i <= j)
         IN  <<rows[low]>>
             \o OrderById([k \in 1..(Len(rows) - 1) |-> IF k < low THEN rows[k] ELSE rows[k + 1]])

\* .limit(10)
RecentLimit == 10

\* db.select().from(securityChecks).orderBy(securityChecks.id).limit(10)
getRecentChecks(rows) ==
    LET ordered == OrderById(rows)
    IN  [k \in 1..Min(RecentLimit, Len(ordered)) |-> Selected(ordered[k])]

NoResponse == [kind |-> "none"]

NoReply  == [request |-> "none"]
NothingShown == [results |-> <<>>, scores |-> [overall |-> -1], of |-> <<>>]
NoRun    == [pc |-> "none"]
NoToast  == "none"
NoReport == [called |-> FALSE]

\* No request made yet; the page as useState initialises it
Quiet ==
    /\ reply = NoReply
    /\ pageCode = <<>>
    /\ shown = NothingShown
    /\ analyzing = FALSE
    /\ analyzeRun = NoRun
    /\ toast = NoToast
    /\ report = NoReport

EmptyStore ==
    /\ securityChecks = <<>>
    /\ idSeq = 0
    /\ created = <<>>
    /\ response = NoResponse

MaxChecks == 3

\* The records the application hands to createSecurityCheck: a text, the
\* findings and overall score of an analysis, and the time of the request
CheckResults ==
    { [results |-> <<>>, score |-> 100],
      [results |-> <<[id |-> "REENTRANCY", severity |-> "critical", line |-> 2],
                     [id |-> "LICENSE", severity |-> "info"]>>,
       score |-> 77] }

InsertChecks ==
    { [code |-> code, results |-> analysis.results, score |-> analysis.score,
       timestamp |-> timestamp] :
          code \in {Chars("a.send(1);"), Chars("\n")},
          analysis \in CheckResults,
          timestamp \in {"2024-01-01T00:00:00.000Z", "2024-01-02T00:00:00.000Z"} }

\* createSecurityCheck(insertCheck): insert one row, return it
CreateSecurityCheck(insertCheck) ==
    /\ Len(securityChecks) < MaxChecks
    /\ LET id  == Nextval(idSeq)
           row == InsertedRow(id, insertCheck)
       IN  /\ idSeq' = id
           /\ securityChecks' = Append(securityChecks, row)
           /\ created' = Append(created, [given |-> insertCheck, returned |-> Selected(row)])
    /\ response' = NoResponse
    /\ UNCHANGED engineVars
    /\ UNCHANGED <<routeVars, pageVars>>

\* getSecurityCheck(id)
GetSecurityCheck(id) ==
    /\ response' = [kind |-> "check", id |-> id, check |-> getSecurityCheck(securityChecks, id)]
    /\ UNCHANGED <<securityChecks, idSeq, created>>
    /\ UNCHANGED engineVars
    /\ UNCHANGED <<routeVars, pageVars>>

\* getRecentChecks()
GetRecentChecks ==
    /\ response' = [kind |-> "recent", checks |-> getRecentChecks(securityChecks)]
    /\ UNCHANGED <<securityChecks, idSeq, created>>
    /\ UNCHANGED engineVars
    /\ UNCHANGED <<routeVars, pageVars>>

----------------------------------------------------------------------------
(* The routes *)

\* A JSON value of a request body, with its JSON type
JString(v) == [t |-> "string", v |-> v]
JNumber(v) == [t |-> "number", v |-> v]
JArray(v)  == [t |-> "array", v |-> v]

\* The body the page sends for a record
JsonBody(check) ==
    [code |-> JString(check.code), results |-> JArray(check.results),
     score |-> JNumber(check.score), timestamp |-> JString(check.timestamp)]

\* insertSecurityCheckSchema accepts an object with a string code, a JSON
\* results, a number score and a string timestamp, none of them missing
Fits(body) ==
    /\ {"code", "results", "score", "timestamp"} \subseteq DOMAIN body
    /\ body.code.t = "string"
    /\ body.score.t = "number"
    /\ body.timestamp.t = "string"

\* insertSecurityCheckSchema.parse(body) when it does not throw: the four
\* picked keys, other keys stripped
Parsed(body) ==
    [code |-> body.code.v, results |-> body.results.v,
     score |-> body.score.v, timestamp |-> body.timestamp.v]

\* How a request ends when its async handler throws before answering: the
\* handler has no catch, so it is left to the framework, which either never
\* answers (0) or answers with its default error status
Unhandled == {0, 500}

NaN == [nan |-> TRUE, n |-> 0]

\* parseInt(str): leading whitespace is skipped, then an optional sign and
\* the longest run of decimal digits; NaN when there is no digit.  (A 0x
\* prefix, which parseInt reads as hexadecimal, is not among the inputs.)
parseInt(str) ==
    LET start  == 1 + RunLength(S, str, 1)
        signed == start <= Len(str) /\ str[start] \in {"+", "-"}
        first  == IF signed THEN start + 1 ELSE start
        count  == RunLength(Digit, str, first)
        value[k \in 0..count] ==
            IF k = 0 THEN 0
            ELSE 10 * value[k - 1]
                 + (CHOOSE d \in 0..9 : Chars("0123456789")[d + 1] = str[first + k - 1])
    IN  IF count = 0 THEN NaN
        ELSE [nan |-> FALSE,
              n |-> IF signed /\ str[start] = "-" THEN -value[count] ELSE value[count]]

\* The bodies clients post: two records, one of them also with a key the
\* schema does not pick, and bodies that do not fit
RequestBodies ==
    LET a == [code |-> Chars("a.send(1);"),
              results |-> <<[id |-> "REENTRANCY", severity |-> "critical", line |-> 1]>>,
              score |-> 89, timestamp |-> "2024-01-01T00:00:00.000Z"]
        b == [code |-> Chars("\n"), results |-> <<>>, score |-> 100,
              timestamp |-> "2024-01-02T00:00:00.000Z"]
    IN  { JsonBody(a),
          [k \in DOMAIN JsonBody(b) \cup {"id"} |->
              IF k = "id" THEN JNumber(7) ELSE JsonBody(b)[k]],
          [k \in DOMAIN JsonBody(a) \ {"score"} |-> JsonBody(a)[k]],
          [JsonBody(a) EXCEPT !.code = JNumber(5)],
          [JsonBody(b) EXCEPT !.score = JString(Chars("100"))],
          <<>> }

\* The :id parameters clients ask for
IdParams ==
    { Chars("1"), Chars("2"), Chars("9"), Chars("-1"), Chars(" 2"),
      Chars("abc"), Chars("1abc") }

\* app.post("/api/analyze", ...)
PostAnalyze(body) ==
    /\ Fits(body) => Len(securityChecks) < MaxChecks
    /\ IF Fits(body)
       THEN LET insertCheck == Parsed(body)
                id          == Nextval(idSeq)
                row         == InsertedRow(id, insertCheck)
            IN  /\ idSeq' = id
                /\ securityChecks' = Append(securityChecks, row)
                /\ created' = Append(created, [given |-> insertCheck,
                                               returned |-> Selected(row)])
                /\ reply' = [request |-> "POST /api/analyze", body |-> body,
                             status |-> 200, json |-> Selected(row),
                             before |-> securityChecks]
       ELSE /\ \E status \in Unhandled :
                  reply' = [request |-> "POST /api/analyze", body |-> body,
                            status |-> status, json |-> <<>>,
                            before |-> securityChecks]
            /\ UNCHANGED <<securityChecks, idSeq, created>>
    /\ UNCHANGED response
    /\ UNCHANGED <<engineVars, pageVars>>

\* app.get("/api/checks/:id", ...)
GetCheck(param) ==
    /\ LET id == parseInt(param)
       IN  IF id.nan
           THEN \* the query compares the integer column with NaN: it finds
                \* no row or the database rejects the value
                \E status \in Unhandled \cup {404} :
                    reply' = [request |-> "GET /api/checks/:id", param |-> param,
                              status |-> status, json |-> <<>>,
                              before |-> securityChecks]
           ELSE LET check == getSecurityCheck(securityChecks, id.n)
                IN  reply' = [request |-> "GET /api/checks/:id", param |-> param,
                              status |-> IF check = Undefined THEN 404 ELSE 200,
                              json |-> IF check = Undefined THEN <<>> ELSE check,
                              before |-> securityChecks]
    /\ UNCHANGED storeVars
    /\ UNCHANGED <<engineVars, pageVars>>

\* app.get("/api/recent", ...)
GetRecent ==
    /\ reply' = [request |-> "GET /api/recent", status |-> 200,
                 json |-> getRecentChecks(securityChecks), before |-> securityChecks]
    /\ UNCHANGED storeVars
    /\ UNCHANGED <<engineVars, pageVars>>

----------------------------------------------------------------------------
(* The caller: source texts and calls *)

MaxFrags == 2

ScenarioText == Chars("contract X { function f() public { x.transfer(1); } }")

TenLoopsText ==
    Chars("for(a;b;c)for(a;b;c)for(a;b;c)for(a;b;c)for(a;b;c)")
    \o Chars("for(a;b;c)for(a;b;c)for(a;b;c)for(a;b;c)for(a;b;c)")

\* The pieces of source text the caller composes its input from
Fragments ==
    { Chars("\n"),
      Chars("x.transfer(1);\ny.send(2);"),
      Chars("for(a;b;c)"),
      TenLoopsText,
      ScenarioText,
      Chars("function f() public returns (uint) {x=1;}"),
      Chars("function f() public returns (uint) { x = 1; }"),
      Chars("function f() public returns (uint) {\n y+=1;\n}"),
      Chars("function g() public returns (uint) {emit E();}"),
      Chars("function g() public returns (uint) {x=1;emit E();}"),
      Chars("function g() public returns (uint) { x = 1; emit E(); }"),
      Chars("function h() public returns (uint) {emitted=1;}"),
      Chars("function h() public returns (uint) {return x;}") }

\* The short texts of the repeated-call specification
CallFragments ==
    { Chars("\n"), Chars("a.send(1);"), Chars("for(a;b;c)"),
      Chars("function f() public returns (uint) {x=1;}") }

Pending  == <<[id |-> "pending"]>>
NoScores == [overall |-> -1]
NoCall   == [input |-> <<"none">>]

ZeroLastIndex == [k \in DOMAIN patterns |-> 0]

Init ==
    /\ input = <<>>
    /\ edits = 0
    /\ results = Pending
    /\ issuesByCategory = EmptyBuckets
    /\ scores = NoScores
    /\ lastIndex = ZeroLastIndex
    /\ matched = <<>>
    /\ seen = NoCall
    /\ EmptyStore
    /\ Quiet

\* The caller extends the text it is going to submit; the previous return
\* value is dropped
Type(f) ==
    /\ edits < MaxFrags
    /\ input' = input \o f
    /\ edits' = edits + 1
    /\ results' = Pending
    /\ issuesByCategory' = EmptyBuckets
    /\ scores' = NoScores
    /\ matched' = <<>>
    /\ UNCHANGED <<lastIndex, seen>>
    /\ UNCHANGED storeVars
    /\ UNCHANGED <<routeVars, pageVars>>

\* The caller starts over with an empty text
Clear ==
    /\ input /= <<>>
    /\ input' = <<>>
    /\ edits' = 0
    /\ results' = Pending
    /\ issuesByCategory' = EmptyBuckets
    /\ scores' = NoScores
    /\ matched' = <<>>
    /\ UNCHANGED <<lastIndex, seen>>
    /\ UNCHANGED storeVars
    /\ UNCHANGED <<routeVars, pageVars>>

\* Number of later calls counted in seen
MaxCounted == 1

\* One call of analyzeCode(input)
AnalyzeCode ==
    /\ results = Pending
    /\ \E a \in {analyzeCode(input, lastIndex)} :
           /\ results' = a.results
           /\ issuesByCategory' = a.issuesByCategory
           /\ scores' = a.scores
           /\ matched' = a.matched
    /\ lastIndex' = LastIndexAfter(input, lastIndex)
    /\ seen' = IF seen = NoCall \/ seen.input = input THEN seen
               ELSE [seen EXCEPT !.others = Min(MaxCounted, @ + 1)]
    /\ UNCHANGED <<input, edits>>
    /\ UNCHANGED storeVars
    /\ UNCHANGED <<routeVars, pageVars>>

\* The caller submits the same text again
Resubmit ==
    /\ results /= Pending
    /\ results' = Pending
    /\ issuesByCategory' = EmptyBuckets
    /\ scores' = NoScores
    /\ matched' = <<>>
    /\ UNCHANGED <<input, edits, lastIndex, seen>>
    /\ UNCHANGED storeVars
    /\ UNCHANGED <<routeVars, pageVars>>

\* History only: keep the call that has just returned for later comparison
Remember ==
    /\ results /= Pending
    /\ seen = NoCall
    /\ seen' = [input |-> input, results |-> results, scores |-> scores, others |-> 0]
    /\ UNCHANGED <<input, edits, results, issuesByCategory, scores, lastIndex, matched>>
    /\ UNCHANGED storeVars
    /\ UNCHANGED <<routeVars, pageVars>>

Next ==
    \/ \E f \in Fragments : Type(f)
    \/ AnalyzeCode

Spec == Init /\ [][Next]_vars

NextCalls ==
    \/ \E f \in CallFragments : Type(f)
    \/ Clear
    \/ Resubmit
    \/ AnalyzeCode
    \/ Remember

SpecCalls == Init /\ [][NextCalls]_vars

----------------------------------------------------------------------------
(* Source texts that exercise the single rules *)

\* One text in which every rule of the table has a match
EveryRuleText ==
    Chars("pragma solidity ^0.8.0;\nusing SafeMath for uint;\n")
    \o Chars("struct T { bool b; }\nmapping(address) m;\n")
    \o Chars("function a() public { x.transfer(1); y += 1; }\n")
    \o Chars("function b() { require(tx.origin == o); for (i;j;k) {} assembly { nop } }\n")
    \o Chars("function c() external payable { v = msg.value; }\n")
    \o Chars("function d() public returns (uint) { return x=1; }\n")
    \o Chars("function e() public payable { selfdestruct(o); }\n")

RuleFragments ==
    { Chars("// SPDX-License-Identifier: MIT\n"),
      Chars("/// @notice n\n"),
      Chars("/// SPDX-License-Identifier MIT @\n"),
      Chars("pragma solidity ^0.8.0;\n"),
      Chars("pragma solidity ~0.7.6;\n"),
      Chars("pragma solidity 0.8.0;\n"),
      Chars("function f() external {}\n"),
      Chars("function g(uint a) {}\n"),
      Chars("function h()private{}\n"),
      Chars("function p() external payable { total = msg.value; }\n"),
      Chars("function q() external payable { require(msg.value > 0, \"v\"); }\n"),
      EveryRuleText }

NextRules ==
    \/ \E f \in RuleFragments : Type(f)
    \/ AnalyzeCode

SpecRules == Init /\ [][NextRules]_vars

----------------------------------------------------------------------------
(* Source texts with mapping declarations *)

MappingFragments ==
    { Chars("mapping(address => uint) m;\n"),
      Chars("mapping(address) n;\n"),
      Chars("mapping (uint = > uint) o;\n"),
      Chars("mapping(a =>\n b) p;\n"),
      Chars("mapping(uint=>mapping(uint)) q;\n"),
      Chars("mapping() r; mapping(=) s;\n"),
      Chars("mapping(uint => bool) t; x.send(1);\n"),
      Chars("\n") }

NextMapping ==
    \/ \E f \in MappingFragments : Type(f)
    \/ AnalyzeCode

SpecMapping == Init /\ [][NextMapping]_vars

----------------------------------------------------------------------------
(* The page: editor, Analyze and Download *)

\* The texts the editor can hold: empty, whitespace only, one with a
\* finding, one with no finding at all
CleanText == Chars("// SPDX-License-Identifier: MIT\n/// @title t\n")

PageTexts == { <<>>, Chars(" \n"), Chars("a.send(1);"), CleanText }

\* !code.trim()
IsBlank(text) == \A i \in DOMAIN text : text[i] \in WhiteSpace

\* results.length > 0 && scores: the condition under which the report is rendered
ReportDisplayed == Len(shown.results) > 0 /\ shown.scores /= NothingShown.scores

\* disabled={analyzing || !results.length} of the Download button
DownloadDisabled == analyzing \/ Len(shown.results) = 0

\* <CodeEditor value={code} onChange={setCode} />
SetCode(text) ==
    /\ text /= pageCode
    /\ pageCode' = text
    /\ UNCHANGED <<shown, analyzing, analyzeRun, toast, report>>
    /\ UNCHANGED <<engineVars, storeVars, routeVars>>

\* A click on Analyze: handleAnalyze up to its await.  The run record keeps
\* the text the handler read, what it did in order (events), whether it set
\* the flag, and the display it found (before).
ClickAnalyze ==
    /\ ~analyzing
    /\ IF IsBlank(pageCode)
       THEN /\ toast' = "No Code"
            /\ analyzeRun' = [pc |-> "returned", code |-> pageCode, events |-> <<>>,
                              flagSet |-> FALSE, outcome |-> "blank",
                              toasted |-> "No Code", before |-> shown]
            /\ UNCHANGED analyzing
       ELSE \E analysis \in {analyzeCode(pageCode, lastIndex)} :
                /\ analyzing' = TRUE
                /\ analyzeRun' = [pc |-> "awaiting", code |-> pageCode,
                                  analysis |-> [results |-> analysis.results,
                                                scores |-> analysis.scores],
                                  events |-> <<"engine", "persist">>,
                                  flagSet |-> TRUE, outcome |-> "pending",
                                  toasted |-> NoToast, before |-> shown]
                /\ UNCHANGED toast
    /\ UNCHANGED <<pageCode, shown, report>>
    /\ UNCHANGED <<engineVars, storeVars, routeVars>>

\* Variant: only the results are replaced
PersistResolvesResultsOnly ==
    /\ analyzeRun.pc = "awaiting"
    /\ shown' = [shown EXCEPT !.results = analyzeRun.analysis.results,
                              !.of = analyzeRun.code]
    /\ toast' = "Analysis Complete"
    /\ analyzing' = FALSE
    /\ analyzeRun' = [analyzeRun EXCEPT !.pc = "returned", !.outcome = "succeeded",
                                        !.events = Append(@, "display"),
                                        !.toasted = "Analysis Complete"]
    /\ UNCHANGED <<pageCode, report>>
    /\ UNCHANGED <<engineVars, storeVars, routeVars>>

\* The persist request resolved: setResults, setScores, toast, finally
PersistResolves ==
    /\ analyzeRun.pc = "awaiting"
    /\ shown' = [results |-> analyzeRun.analysis.results,
                 scores |-> analyzeRun.analysis.scores,
                 of |-> analyzeRun.code]
    /\ toast' = "Analysis Complete"
    /\ analyzing' = FALSE
    /\ analyzeRun' = [analyzeRun EXCEPT !.pc = "returned", !.outcome = "succeeded",
                                        !.events = Append(@, "display"),
                                        !.toasted = "Analysis Complete"]
    /\ UNCHANGED <<pageCode, report>>
    /\ UNCHANGED <<engineVars, storeVars, routeVars>>

\* Variant: no finally block
PersistRejectsNoFinally ==
    /\ analyzeRun.pc = "awaiting"
    /\ toast' = "Analysis Failed"
    /\ analyzeRun' = [analyzeRun EXCEPT !.pc = "returned", !.outcome = "failed",
                                        !.toasted = "Analysis Failed"]
    /\ UNCHANGED <<pageCode, shown, analyzing, report>>
    /\ UNCHANGED <<engineVars, storeVars, routeVars>>

\* The persist request rejected: catch, toast, finally
PersistRejects ==
    /\ analyzeRun.pc = "awaiting"
    /\ toast' = "Analysis Failed"
    /\ analyzing' = FALSE
    /\ analyzeRun' = [analyzeRun EXCEPT !.pc = "returned", !.outcome = "failed",
                                        !.toasted = "Analysis Failed"]
    /\ UNCHANGED <<pageCode, shown, report>>
    /\ UNCHANGED <<engineVars, storeVars, routeVars>>

\* A click on Download: handleDownloadReport; the document export succeeds or throws
ClickDownload ==
    /\ ~DownloadDisabled
    /\ IF Len(shown.results) = 0 \/ shown.scores = NothingShown.scores
       THEN /\ toast' = "No Analysis Results"
            /\ UNCHANGED report
       ELSE /\ report' = [called |-> TRUE, code |-> pageCode, results |-> shown.results,
                          scores |-> shown.scores, of |-> shown.of]
            /\ \E t \in {"Report Downloaded", "Download Failed"} : toast' = t
    /\ UNCHANGED <<pageCode, shown, analyzing, analyzeRun>>
    /\ UNCHANGED <<engineVars, storeVars, routeVars>>

NextPage ==
    \/ \E text \in PageTexts : SetCode(text)
    \/ ClickAnalyze
    \/ PersistResolves
    \/ PersistRejects
    \/ ClickDownload

\* A request that was sent settles, and its continuation is then run
SpecPage == Init /\ [][NextPage]_vars /\ WF_vars(PersistResolves \/ PersistRejects)

----------------------------------------------------------------------------
(* calculateScores on arbitrary buckets *)

MaxIssues == 14

NoSeverity == "none"

\* n findings of one severity
Bucket(sev, n) ==
    IF sev = NoSeverity THEN <<>>
    ELSE [i \in 1..n |-> [id |-> "ANY", severity |-> sev]]

InitScores ==
    /\ \E n \in 0..MaxIssues :
       \E sv \in [Categories -> Severities \cup {NoSeverity}] :
           issuesByCategory = [security       |-> Bucket(sv["security"], n),
                               gas            |-> Bucket(sv["gas"], n),
                               code_quality   |-> Bucket(sv["code_quality"], n),
                               best_practices |-> Bucket(sv["best_practices"], n)]
    /\ input = <<>>
    /\ edits = 0
    /\ results = Pending
    /\ scores = NoScores
    /\ lastIndex = ZeroLastIndex
    /\ matched = <<>>
    /\ seen = NoCall
    /\ EmptyStore
    /\ Quiet

CalculateScores ==
    /\ scores = NoScores
    /\ scores' = calculateScores(issuesByCategory)
    /\ UNCHANGED <<input, edits, results, issuesByCategory, lastIndex, matched, seen>>
    /\ UNCHANGED storeVars
    /\ UNCHANGED <<routeVars, pageVars>>

NextScores == CalculateScores

SpecScores == InitScores /\ [][NextScores]_vars

----------------------------------------------------------------------------
(* calculateScores on a bucket and on the same bucket with one more finding *)

MaxBucket == 3

\* The lists of up to n findings of any severities
RECURSIVE FindingLists(_)
FindingLists(n) ==
    IF n = 0 THEN {<<>>}
    ELSE LET shorter == FindingLists(n - 1)
         IN  shorter \cup {Append(b, [id |-> "ANY", severity |-> sev]) :
                               b \in shorter, sev \in Severities}

\* The security bucket holds a list, the gas bucket the same list and one more
InitOneMore ==
    /\ \E bucket \in FindingLists(MaxBucket) : \E sev \in Severities :
           issuesByCategory = [security       |-> bucket,
                               gas            |-> Append(bucket, [id |-> "ANY", severity |-> sev]),
                               code_quality   |-> <<>>,
                               best_practices |-> <<>>]
    /\ input = <<>>
    /\ edits = 0
    /\ results = Pending
    /\ scores = NoScores
    /\ lastIndex = ZeroLastIndex
    /\ matched = <<>>
    /\ seen = NoCall
    /\ EmptyStore
    /\ Quiet

SpecOneMore == InitOneMore /\ [][NextScores]_vars

----------------------------------------------------------------------------
(* The storage on its own: creates and reads in any order *)

InitStorage ==
    /\ EmptyStore
    /\ Quiet
    /\ input = <<>>
    /\ edits = 0
    /\ results = Pending
    /\ issuesByCategory = EmptyBuckets
    /\ scores = NoScores
    /\ lastIndex = ZeroLastIndex
    /\ matched = <<>>
    /\ seen = NoCall

NextStorage ==
    \/ \E insertCheck \in InsertChecks : CreateSecurityCheck(insertCheck)
    \/ \E id \in 0..(MaxChecks + 1) : GetSecurityCheck(id)
    \/ GetRecentChecks

SpecStorage == InitStorage /\ [][NextStorage]_vars

----------------------------------------------------------------------------
(* The routes with their storage: requests in any order *)

NextRoutes ==
    \/ \E body \in RequestBodies : PostAnalyze(body)
    \/ \E param \in IdParams : GetCheck(param)
    \/ GetRecent

SpecRoutes == InitStorage /\ [][NextRoutes]_vars

----------------------------------------------------------------------------
(* Properties *)

Analysed == results /= Pending
Scored   == scores /= NoScores

IsInteger(x) == x % Scale = 0
InRange(x)   == 0 <= x /\ x <= 100 * Scale

HasLine(r) == "line" \in DOMAIN r

Ids(seq) == {seq[i].id : i \in DOMAIN seq}

RuleIndex(id) == CHOOSE k \in DOMAIN patterns : patterns[k].id = id

\* The findings of the call that carry the id of rule k, in list order
RuleFindings(k) == SelectSeq(results, LAMBDA r : r.id = patterns[k].id)

\* The match of the call at the recorded offsets m
MatchAt(m) ==
    [index |-> m.index, text |-> SubSeq(input, m.index + 1, m.end), input |-> input]

\* The matches of rule k that its checker did not decline, in source order
Flagged(k) ==
    SelectSeq(matched[k], LAMBDA m : Check(patterns[k], MatchAt(m), input) /= Null)

NewlinesBefore(s, index) == Cardinality({i \in 1..index : s[i] = "\n"})

\* C1: every category score of a call is an integer in [0,100]
CategoryScoresIntegerInRange ==
    Scored =>
        /\ IsInteger(scores.security)      /\ InRange(scores.security)
        /\ IsInteger(scores.gas)           /\ InRange(scores.gas)
        /\ IsInteger(scores.codeQuality)   /\ InRange(scores.codeQuality)
        /\ IsInteger(scores.bestPractices) /\ InRange(scores.bestPractices)

\* C2: the overall score is an integer in [0,100] for every bucket content
OverallIntegerInRange ==
    Scored => IsInteger(scores.overall) /\ InRange(scores.overall)

\* every category clamped at 0 and the blend rounded to 0
WitnessOverallAtFloor ==
    /\ Scored
    /\ \A c \in Categories : Len(issuesByCategory[c]) = MaxIssues
    /\ scores.security = 0 /\ scores.gas < 100 * Scale
    /\ scores.overall < 50 * Scale

\* C3: the empty text yields no finding, four category scores of 100 and
\* overall 100
EmptyInputIsClean ==
    (Analysed /\ input = <<>>) =>
        /\ results = <<>>
        /\ scores.security = 100 * Scale
        /\ scores.gas = 100 * Scale
        /\ scores.codeQuality = 100 * Scale
        /\ scores.bestPractices = 100 * Scale
        /\ scores.overall = 100 * Scale

WitnessEmptyInputAnalysed == Analysed /\ input = <<>> /\ Scored

\* C4: a call returns the findings and scores that an earlier call with the
\* same text returned, whatever calls were made in between
SameInputSameAnalysis ==
    (Analysed /\ seen /= NoCall /\ seen.input = input) =>
        /\ results = seen.results
        /\ scores = seen.scores

\* the remembered text analysed again after a call on another text
WitnessRepeatedCall ==
    /\ Analysed
    /\ seen /= NoCall
    /\ seen.input = input
    /\ seen.others >= 1
    /\ results /= <<>>
    /\ \E i \in DOMAIN results : HasLine(results[i])

\* C5: the findings of one rule follow the source order of its matches, and
\* their lines are at least 1 and never decrease along the findings list
SameRuleLinesMonotone ==
    Analysed =>
        /\ \A i \in DOMAIN results : HasLine(results[i]) => results[i].line >= 1
        /\ \A i, j \in DOMAIN results :
              (i < j /\ results[i].id = results[j].id
                     /\ HasLine(results[i]) /\ HasLine(results[j]))
              => results[i].line <= results[j].line
        /\ \A k \in DOMAIN matched : \A i, j \in DOMAIN matched[k] :
              i < j => matched[k][i].index < matched[k][j].index

\* two findings of one rule on different lines
WitnessSameRuleTwoLines ==
    /\ Analysed
    /\ \E i, j \in DOMAIN results :
          /\ i < j /\ results[i].id = results[j].id
          /\ HasLine(results[i]) /\ HasLine(results[j])
          /\ results[i].line < results[j].line

\* C6: the line of a rule finding is 1 plus the number of newlines before
\* the start of its match; LICENSE and NATSPEC carry no line
LineIsOnePlusNewlines ==
    Analysed =>
        /\ \A k \in DOMAIN patterns :
              /\ Len(RuleFindings(k)) = Len(Flagged(k))
              /\ \A j \in DOMAIN Flagged(k) :
                    /\ HasLine(RuleFindings(k)[j])
                    /\ RuleFindings(k)[j].line
                          = 1 + NewlinesBefore(input, Flagged(k)[j].index)
        /\ \A i \in DOMAIN results :
              results[i].id \in {"LICENSE", "NATSPEC"} => ~HasLine(results[i])

\* a match at offset 0, a finding beyond line 1 and a source-wide finding
WitnessLinesAttributed ==
    /\ Analysed
    /\ \E k \in DOMAIN patterns : \E j \in DOMAIN Flagged(k) :
          Flagged(k)[j].index = 0 /\ RuleFindings(k)[j].line = 1
    /\ \E i \in DOMAIN results : HasLine(results[i]) /\ results[i].line >= 2
    /\ "LICENSE" \in Ids(results)

\* C7: the scenario text yields REENTRANCY (critical, security),
\* ACCESS_CONTROL (high, security), LICENSE (info, best_practices) and
\* NATSPEC (info, code_quality), and a security score below 100
In(seq, id, sev) == \E i \in DOMAIN seq : seq[i].id = id /\ seq[i].severity = sev

ScenarioFindings ==
    (Analysed /\ input = ScenarioText) =>
        /\ In(results, "REENTRANCY", "critical")
        /\ In(issuesByCategory.security, "REENTRANCY", "critical")
        /\ In(results, "ACCESS_CONTROL", "high")
        /\ In(issuesByCategory.security, "ACCESS_CONTROL", "high")
        /\ In(results, "LICENSE", "info")
        /\ In(issuesByCategory.best_practices, "LICENSE", "info")
        /\ In(results, "NATSPEC", "info")
        /\ In(issuesByCategory.code_quality, "NATSPEC", "info")
        /\ scores.security < 100 * Scale

WitnessScenarioAnalysed == Analysed /\ input = ScenarioText /\ Len(results) >= 4

\* C8: a gas bucket of exactly ten GAS_LOOP findings is scaled by 0.5 and
\* scores 75, above the unscaled 100 + 10 * (medium weight) = 50
TenLoops(bucket) ==
    /\ Len(bucket) = 10
    /\ \A i \in DOMAIN bucket : bucket[i].id = "GAS_LOOP" /\ bucket[i].severity = "medium"

TenLoopsGasScore ==
    (Analysed /\ TenLoops(issuesByCategory.gas)) =>
        /\ 2 * ScalingFactor(Len(issuesByCategory.gas)) = Scale
        /\ scores.gas > (100 + 10 * severityWeights.medium) * Scale
        /\ scores.gas = 75 * Scale

WitnessTenLoops ==
    /\ Analysed
    /\ TenLoops(issuesByCategory.gas)
    /\ Len(matched[RuleIndex("GAS_LOOP")]) = 10

\* The emit keyword: the word emit with no word character on either side
HasEmitKeyword(text) ==
    \E i \in 1..(Len(text) - 3) :
        /\ SubSeq(text, i, i + 3) = Chars("emit")
        /\ ~IsWordAt(text, i - 1)
        /\ ~IsWordAt(text, i + 4)

\* An assignment operator: = , += , -= , *= , /=  (not == != <= >= =>)
HasAssignment(text) ==
    \E i \in 1..Len(text) :
        /\ text[i] = "="
        /\ (i < Len(text) => text[i + 1] \notin {"=", ">"})
        /\ (i > 1 => text[i - 1] \notin {"=", "!", "<", ">"})

MissingEventsMatches == matched[RuleIndex("MISSING_EVENTS")]

MatchText(m) == SubSeq(input, m.index + 1, m.end)

\* The findings every rule but MISSING_EVENTS owes for its flagged matches
OtherRuleFindings ==
    Flatten([k \in DOMAIN patterns |->
                IF patterns[k].id = "MISSING_EVENTS" THEN <<>>
                ELSE [j \in DOMAIN Flagged(k) |->
                        [id |-> patterns[k].id, severity |-> patterns[k].severity,
                         line |-> 1 + NewlinesBefore(input, Flagged(k)[j].index)]]],
            1, Len(patterns))

\* C9: a matched function whose body has the emit keyword gets no
\* MISSING_EVENTS finding, and the other findings are what they are without
\* the declined matches
NoMissingEventsWhenEmit ==
    Analysed =>
        /\ Len(RuleFindings(RuleIndex("MISSING_EVENTS")))
              <= Len(SelectSeq(MissingEventsMatches,
                               LAMBDA m : ~HasEmitKeyword(MatchText(m))))
        /\ SelectSeq(results, LAMBDA r : HasLine(r) /\ r.id /= "MISSING_EVENTS")
              = OtherRuleFindings

\* a matched function with an assignment and an emit, declined, beside other findings
WitnessDeclinedForEmit ==
    /\ Analysed
    /\ \E i \in DOMAIN MissingEventsMatches :
          /\ HasEmitKeyword(MatchText(MissingEventsMatches[i]))
          /\ HasAssignment(MatchText(MissingEventsMatches[i]))
    /\ "MISSING_EVENTS" \notin Ids(results)
    /\ "ACCESS_CONTROL" \in Ids(results)

\* C10: a matched function gets a MISSING_EVENTS finding exactly when its
\* body has an assignment operator and no emit keyword
MissingEventsExactlyWhenAssignment ==
    Analysed =>
        Len(RuleFindings(RuleIndex("MISSING_EVENTS")))
            = Len(SelectSeq(MissingEventsMatches,
                            LAMBDA m : HasAssignment(MatchText(m))
                                       /\ ~HasEmitKeyword(MatchText(m))))

\* The fields a create was given
SameFields(check, given) ==
    /\ check.code = given.code
    /\ check.results = given.results
    /\ check.score = given.score
    /\ check.timestamp = given.timestamp

\* C11: reading by the identifier a create returned gives a record equal in
\* code, results, score and timestamp to what that create was given, and
\* different creates return different identifiers
RoundTripByAssignedId ==
    /\ \A i \in DOMAIN created :
          LET check == getSecurityCheck(securityChecks, created[i].returned.id)
          IN  /\ check /= Undefined
              /\ check.id = created[i].returned.id
              /\ SameFields(check, created[i].given)
              /\ SameFields(created[i].returned, created[i].given)
    /\ \A i, j \in DOMAIN created :
          i /= j => created[i].returned.id /= created[j].returned.id
    /\ (response.kind = "check" /\ response.check /= Undefined) =>
          \E i \in DOMAIN created :
              /\ created[i].returned.id = response.id
              /\ SameFields(response.check, created[i].given)

\* the first record read back after later creates of different records
WitnessReadAfterLaterCreates ==
    /\ Len(created) = MaxChecks
    /\ response.kind = "check"
    /\ response.id = created[1].returned.id
    /\ response.check /= Undefined
    /\ response.check.results /= <<>>
    /\ \A i \in 2..Len(created) : created[i].given /= created[1].given

\* The listing holds the n most recently created records, newest first
MostRecentFirst(checks, n) ==
    /\ Len(checks) = Min(n, Len(created))
    /\ \A k \in DOMAIN checks : checks[k] = created[Len(created) + 1 - k].returned

\* C12: the recent-checks listing returns the most recently created records
\* (at most 10), most recent first
RecentChecksMostRecentFirst ==
    response.kind = "recent" => MostRecentFirst(response.checks, RecentLimit)

\* Position of a finding's origin: the rule's place in the table, then
\* LICENSE, then NATSPEC
Rank(r) ==
    IF r.id = "LICENSE" THEN Len(patterns) + 1
    ELSE IF r.id = "NATSPEC" THEN Len(patterns) + 2
    ELSE RuleIndex(r.id)

\* The findings owed to the flagged matches of rule k, in source order
OwedBy(k) ==
    [j \in DOMAIN Flagged(k) |->
        [id |-> patterns[k].id, severity |-> patterns[k].severity,
         line |-> 1 + NewlinesBefore(input, Flagged(k)[j].index)]]

\* C13: the findings list is ordered by rule-table position, within one rule
\* by source order of the matches, and the source-wide findings come last,
\* LICENSE before NATSPEC
FindingsInRuleTableOrder ==
    Analysed =>
        /\ \A i, j \in DOMAIN results : i < j => Rank(results[i]) <= Rank(results[j])
        /\ \A k \in DOMAIN patterns : RuleFindings(k) = OwedBy(k)
        /\ \A k \in DOMAIN matched : \A i, j \in DOMAIN matched[k] :
              i < j => matched[k][i].end <= matched[k][j].index

\* findings of two rules, two of them of one rule, and both source-wide findings
WitnessRulesThenSourceWide ==
    /\ Analysed
    /\ \E i, j \in DOMAIN results :
          i < j /\ HasLine(results[i]) /\ HasLine(results[j]) /\ results[i].id /= results[j].id
    /\ \E i, j \in DOMAIN results :
          i < j /\ results[i].id = results[j].id /\ results[i].line < results[j].line
    /\ Len(results) >= 2
    /\ results[Len(results) - 1].id = "LICENSE"
    /\ results[Len(results)].id = "NATSPEC"

\* text contains str
Contains(text, str) ==
    \E i \in 0..(Len(text) - Len(str)) : SubSeq(text, i + 1, i + Len(str)) = str

Count(seq, id) == Len(SelectSeq(seq, LAMBDA r : r.id = id))

\* The finding id appears n times, tagged info, and only in the bucket
OnlyInBucket(id, n, bucket) ==
    /\ Count(results, id) = n
    /\ \A i \in DOMAIN results : results[i].id = id => results[i].severity = "info"
    /\ \A c \in Categories :
          Count(issuesByCategory[c], id) = IF c = bucket THEN n ELSE 0

\* C14: a non-empty text gets one LICENSE finding (info, best_practices)
\* exactly when it lacks 'SPDX-License-Identifier:' and one NATSPEC finding
\* (info, code_quality) exactly when it lacks '/// @'; the empty text gets neither
SourceWideChecksExactly ==
    Analysed =>
        /\ OnlyInBucket("LICENSE",
               IF input /= <<>> /\ ~Contains(input, Chars("SPDX-License-Identifier:"))
               THEN 1 ELSE 0, "best_practices")
        /\ OnlyInBucket("NATSPEC",
               IF input /= <<>> /\ ~Contains(input, Chars("/// @"))
               THEN 1 ELSE 0, "code_quality")

\* a licensed text without NatSpec: NATSPEC alone
WitnessLicensedWithoutNatspec ==
    /\ Analysed
    /\ Contains(input, Chars("SPDX-License-Identifier:"))
    /\ ~Contains(input, Chars("/// @"))
    /\ Count(results, "NATSPEC") = 1
    /\ Count(results, "LICENSE") = 0

\* The weight the claim gives a severity
ClaimedWeight(sev) ==
    CASE sev = "critical" -> 15
      [] sev = "high"     -> 10
      [] sev = "medium"   -> 5
      [] sev = "low"      -> 2
      [] sev = "info"     -> 1

\* 100 - (sum of the weights) * max(0.5, 1 - n/20) clamped to [0,100], in
\* twentieths: the factor is (20 - n)/20 up to n = 10 and 10/20 from there on
ClaimedCategoryScore(bucket) ==
    LET n      == Len(bucket)
        sum    == LET counted[k \in 0..n] ==
                          IF k = 0 THEN 0
                          ELSE counted[k - 1] + ClaimedWeight(bucket[k].severity)
                  IN  counted[n]
        factor == IF n >= 10 THEN 10 ELSE 20 - n
        raw    == 100 * Scale - sum * factor
    IN  IF n = 0 THEN 100 * Scale
        ELSE IF raw < 0 THEN 0
        ELSE IF raw > 100 * Scale THEN 100 * Scale
        ELSE raw

\* C15: a category score is 100 for an empty bucket and otherwise 100 minus
\* the summed severity weights times max(0.5, 1 - n/20), clamped to [0,100]
CategoryScoreFormula ==
    Scored =>
        /\ scores.security      = ClaimedCategoryScore(issuesByCategory.security)
        /\ scores.gas           = ClaimedCategoryScore(issuesByCategory.gas)
        /\ scores.codeQuality   = ClaimedCategoryScore(issuesByCategory.code_quality)
        /\ scores.bestPractices = ClaimedCategoryScore(issuesByCategory.best_practices)

\* beyond ten findings: one bucket at the 0.5 factor above 0, one clamped at
\* 0 and one empty
WitnessFactorFloorAndClamp ==
    /\ Scored
    /\ Len(issuesByCategory.security) > 10
    /\ scores.security = 0
    /\ Len(issuesByCategory.gas) > 10
    /\ scores.gas > 0 /\ scores.gas < 100 * Scale
    /\ issuesByCategory.code_quality = <<>>
    /\ scores.codeQuality = 100 * Scale

\* C16: overall is the blend 0.35 security + 0.25 codeQuality +
\* 0.25 bestPractices + 0.15 gas of the call's own category scores, rounded to
\* a nearest integer; the weights sum to 1
OverallIsRoundedBlend ==
    Scored =>
        LET blend == 35 * scores.security + 25 * scores.codeQuality
                     + 25 * scores.bestPractices + 15 * scores.gas
            diff  == 100 * scores.overall - blend
        IN  /\ 35 + 25 + 25 + 15 = 100
            /\ IsInteger(scores.overall)
            /\ 2 * diff <= 100 * Scale
            /\ 2 * diff >= -(100 * Scale)

\* four different category scores and a blend that is not an integer
WitnessBlendRounded ==
    /\ Scored
    /\ Cardinality({scores.security, scores.gas, scores.codeQuality,
                    scores.bestPractices}) = 4
    /\ (35 * scores.security + 25 * scores.codeQuality
        + 25 * scores.bestPractices + 15 * scores.gas) % (100 * Scale) /= 0

\* The catalogue as claimed: id -> <<severity, bucket>>
Catalog ==
    [id \in {"REENTRANCY", "TX_ORIGIN", "UNCHECKED_PAYMENT", "SELF_DESTRUCT",
             "ACCESS_CONTROL", "ARITHMETIC", "INLINE_ASSEMBLY", "GAS_LOOP",
             "STRUCT_PACKING", "DEPRECATED_SAFEMATH", "VISIBILITY_MODIFIER",
             "REQUIRE_MESSAGE", "INVALID_MAPPING", "FLOATING_PRAGMA",
             "MISSING_EVENTS"} |->
        CASE id \in {"REENTRANCY", "TX_ORIGIN", "UNCHECKED_PAYMENT", "SELF_DESTRUCT"}
                 -> <<"critical", "security">>
          [] id \in {"ACCESS_CONTROL", "ARITHMETIC", "INLINE_ASSEMBLY"}
                 -> <<"high", "security">>
          [] id = "GAS_LOOP"            -> <<"medium", "gas">>
          [] id = "STRUCT_PACKING"      -> <<"low", "gas">>
          [] id = "DEPRECATED_SAFEMATH" -> <<"info", "gas">>
          [] id = "VISIBILITY_MODIFIER" -> <<"medium", "code_quality">>
          [] id = "REQUIRE_MESSAGE"     -> <<"low", "code_quality">>
          [] id = "INVALID_MAPPING"     -> <<"high", "code_quality">>
          [] id \in {"FLOATING_PRAGMA", "MISSING_EVENTS"}
                 -> <<"medium", "best_practices">>]

\* C17: the severity and the bucket of every rule finding are those the
\* catalogue fixes for its id; the fifteen rule ids are pairwise distinct and
\* a finding has one of them or is a source-wide finding
SeverityAndBucketFixedById ==
    /\ \A j, k \in DOMAIN patterns : j /= k => patterns[j].id /= patterns[k].id
    /\ {patterns[k].id : k \in DOMAIN patterns} = DOMAIN Catalog
    /\ Cardinality(DOMAIN Catalog) = 15
    /\ Analysed =>
          /\ Ids(results) \subseteq DOMAIN Catalog \cup {"LICENSE", "NATSPEC"}
          /\ \A i \in DOMAIN results :
                results[i].id \in DOMAIN Catalog =>
                    /\ HasLine(results[i])
                    /\ results[i].severity = Catalog[results[i].id][1]
          /\ \A id \in DOMAIN Catalog : \A c \in Categories :
                SelectSeq(issuesByCategory[c], LAMBDA r : r.id = id)
                    = IF c = Catalog[id][2]
                      THEN SelectSeq(results, LAMBDA r : r.id = id)
                      ELSE <<>>

\* one call in which every rule of the table has produced a finding
WitnessEveryRuleFired ==
    /\ Analysed
    /\ DOMAIN Catalog \subseteq Ids(results)

\* A version directive prefixed with a caret or a tilde
PrefixedPragma ==
    Cat(<<Lit("pragma solidity "), Cls({"^", "~"}), Lit("0."),
          Plus(Digit), Lit("."), Plus(Digit)>>)

\* The offsets of text at which the regular expression re matches
Occurrences(re, text) == {i \in 0..(Len(text) - 1) : Ends(re, text, i + 1) /= <<>>}

\* C18: there is one FLOATING_PRAGMA finding (medium, best_practices) for
\* every caret- or tilde-prefixed version directive and none for a pinned one
FloatingPragmaOnlyWhenPrefixed ==
    Analysed =>
        /\ Count(results, "FLOATING_PRAGMA")
              = Cardinality(Occurrences(PrefixedPragma, input))
        /\ Count(issuesByCategory.best_practices, "FLOATING_PRAGMA")
              = Count(results, "FLOATING_PRAGMA")
        /\ \A i \in DOMAIN results :
              results[i].id = "FLOATING_PRAGMA" => results[i].severity = "medium"

Qualifiers == {"external", "public", "internal", "private"}

\* function\s+\w+\s*\([^)]*\)  -- a declaration up to the end of its parameter list
Declaration == Cat(SubSeq(FunctionHead, 1, Len(FunctionHead) - 1))

\* The declaration at offset i has, after its parameter list and any
\* whitespace, one of the four qualifiers
QualifierFollows(text, i) ==
    LET close == Ends(Declaration, text, i + 1)[1]
        after == close + RunLength(S, text, close)
    IN  \E q \in Qualifiers : Ends(Lit(q), text, after) /= <<>>

\* C19: there is a VISIBILITY_MODIFIER finding (medium, code_quality) only
\* for the function declarations whose parameter list is not followed by
\* external, public, internal or private
VisibilityOnlyWithoutQualifier ==
    Analysed =>
        /\ Count(results, "VISIBILITY_MODIFIER")
              = Cardinality({i \in Occurrences(Declaration, input) :
                                ~QualifierFollows(input, i)})
        /\ \A i \in DOMAIN results :
              results[i].id = "VISIBILITY_MODIFIER" => results[i].severity = "medium"

\* require\s*\([^)]*msg\.value  -- the value is tested inside a require
ValidatesValue ==
    Cat(<<Lit("require"), Star(S), Lit("("), Star(NotCls({")"})), Lit("msg.value")>>)

\* C20: an external payable function whose body references msg.value gets an
\* UNCHECKED_PAYMENT finding (critical, security) exactly when the body does
\* not validate msg.value
UncheckedPaymentOnlyWithoutValidation ==
    Analysed =>
        LET k == RuleIndex("UNCHECKED_PAYMENT")
        IN  Len(RuleFindings(k))
                = Len(SelectSeq(matched[k],
                                LAMBDA m : Occurrences(ValidatesValue, MatchText(m)) = {}))

MappingMatches == matched[RuleIndex("INVALID_MAPPING")]

\* The mapping matches whose snippet lacks the separator
WithoutSeparator ==
    SelectSeq(MappingMatches, LAMBDA m : ~Contains(MatchText(m), Chars("=>")))

\* The findings every rule but INVALID_MAPPING owes, in list order
FindingsBesidesMapping ==
    Flatten([k \in DOMAIN patterns |->
                IF patterns[k].id = "INVALID_MAPPING" THEN <<>> ELSE OwedBy(k)],
            1, Len(patterns))

\* C21: a match of the mapping pattern yields an INVALID_MAPPING finding
\* (high, code_quality) exactly when its snippet does not contain '=>', and
\* a match that contains it leaves the rest of the result as it is
InvalidMappingExactlyWithoutSeparator ==
    Analysed =>
        /\ RuleFindings(RuleIndex("INVALID_MAPPING"))
              = [j \in DOMAIN WithoutSeparator |->
                    [id |-> "INVALID_MAPPING", severity |-> "high",
                     line |-> 1 + NewlinesBefore(input, WithoutSeparator[j].index)]]
        /\ Count(issuesByCategory.code_quality, "INVALID_MAPPING")
              = Len(WithoutSeparator)
        /\ \A c \in Categories \ {"code_quality"} :
              Count(issuesByCategory[c], "INVALID_MAPPING") = 0
        /\ SelectSeq(results, LAMBDA r : HasLine(r) /\ r.id /= "INVALID_MAPPING")
              = FindingsBesidesMapping
        /\ Len(results) = Len(WithoutSeparator) + Len(FindingsBesidesMapping)
                          + Count(results, "LICENSE") + Count(results, "NATSPEC")

\* one declaration with the separator declined, one without it flagged, and
\* a finding of another rule
WitnessMappingDeclinedAndFlagged ==
    /\ Analysed
    /\ Len(MappingMatches) >= 2
    /\ Len(WithoutSeparator) >= 1
    /\ Len(WithoutSeparator) < Len(MappingMatches)
    /\ FindingsBesidesMapping /= <<>>

\* The :id parameter names a stored record: it is the decimal text of its id
NamesStoredRecord(param) ==
    \E i \in DOMAIN securityChecks :
        /\ securityChecks[i].id \in 0..9
        /\ param = <<Chars("0123456789")[securityChecks[i].id + 1]>>

\* C22: a lookup for an identifier with no stored record (never created, or
\* not a number) is answered with 404, and the stored records are unchanged
AbsentLookupNotFound ==
    (reply.request = "GET /api/checks/:id" /\ ~NamesStoredRecord(reply.param)) =>
        /\ reply.status = 404
        /\ securityChecks = reply.before

\* C23: a POST /api/analyze whose body does not fit the insert record shape
\* is answered with a client-error status and creates no record
MalformedBodyRejected ==
    (reply.request = "POST /api/analyze" /\ ~Fits(reply.body)) =>
        /\ reply.status \in 400..499
        /\ securityChecks = reply.before

\* What the engine returns for each text the editor can hold
PageAnalyses == [text \in PageTexts |-> analyzeCode(text, ZeroLastIndex)]

\* The displayed results and scores are those of one engine call
FromOneAnalysis ==
    \/ shown = NothingShown
    \/ /\ shown.of \in PageTexts
       /\ shown.results = PageAnalyses[shown.of].results
       /\ shown.scores = PageAnalyses[shown.of].scores

\* The last Analyze run has returned with the given outcome
Returned(outcome) == analyzeRun.pc = "returned" /\ analyzeRun.outcome = outcome

\* C24: a failed Analyze run leaves the displayed results and scores as they
\* were, raises the failure notification and leaves the page usable; the
\* displayed results and scores always come from the same analysis
FailedRunKeepsDisplay ==
    /\ Returned("failed") =>
          /\ shown = analyzeRun.before
          /\ analyzeRun.toasted = "Analysis Failed"
          /\ ~analyzing
    /\ FromOneAnalysis

\* a run on another text failed while an earlier analysis was displayed
WitnessFailedOverEarlierAnalysis ==
    /\ Returned("failed")
    /\ analyzeRun.before /= NothingShown
    /\ analyzeRun.before.results /= <<>>
    /\ analyzeRun.code /= analyzeRun.before.of
    /\ shown = analyzeRun.before

\* The bucket a finding id belongs to: that of its rule, or that of the
\* source-wide check
BucketOf(id) ==
    CASE id = "LICENSE" -> "best_practices"
      [] id = "NATSPEC" -> "code_quality"
      [] OTHER          -> patterns[RuleIndex(id)].category

\* C25: after a call each bucket is the sub-list of the findings that belong
\* to it, so every finding is in exactly one bucket, the list is as long as
\* the four buckets together, and each category score is that of its bucket
FindingsPartitionedByBucket ==
    Analysed =>
        /\ \A c \in Categories :
              issuesByCategory[c] = SelectSeq(results, LAMBDA r : BucketOf(r.id) = c)
        /\ Len(results) = Len(issuesByCategory.security) + Len(issuesByCategory.gas)
                          + Len(issuesByCategory.code_quality)
                          + Len(issuesByCategory.best_practices)
        /\ scores.security = calculateCategoryScore(issuesByCategory.security)
        /\ scores.gas = calculateCategoryScore(issuesByCategory.gas)
        /\ scores.codeQuality = calculateCategoryScore(issuesByCategory.code_quality)
        /\ scores.bestPractices = calculateCategoryScore(issuesByCategory.best_practices)

\* every bucket is filled, by rule findings and by both source-wide checks
WitnessAllBucketsFilled ==
    /\ Analysed
    /\ \A c \in Categories : Len(issuesByCategory[c]) >= 2
    /\ {"LICENSE", "NATSPEC"} \subseteq Ids(results)

\* The score computed for the bucket of category c
ScoreOf(c) ==
    CASE c = "security"       -> scores.security
      [] c = "gas"            -> scores.gas
      [] c = "code_quality"   -> scores.codeQuality
      [] c = "best_practices" -> scores.bestPractices

\* Bucket d is bucket c with one more finding at its end
OneMore(c, d) ==
    /\ Len(issuesByCategory[d]) = Len(issuesByCategory[c]) + 1
    /\ SubSeq(issuesByCategory[d], 1, Len(issuesByCategory[c])) = issuesByCategory[c]

\* C26: a bucket with one more finding, of any severity, never scores higher
OneMoreFindingNeverScoresHigher ==
    Scored =>
        \A c, d \in Categories : OneMore(c, d) => ScoreOf(d) <= ScoreOf(c)

\* C27: the overall score of a call is 100 only when the call returned no
\* finding
OverallFullOnlyWithoutFindings ==
    Analysed => (scores.overall = 100 * Scale => results = <<>>)

\* C28: whenever the report is generated, the results passed are not empty,
\* the scores are defined, and the code passed is the code those results and
\* scores were computed from
ReportOfAnalysedCode ==
    report.called =>
        /\ report.results /= <<>>
        /\ report.scores /= NothingShown.scores
        /\ report.code = report.of

\* What a run of handleAnalyze did, in order: nothing on a blank text;
\* otherwise the engine call, then the persist request, then, only after the
\* request succeeded, the display of the results
RunInOrder ==
    analyzeRun.pc /= "none" =>
        /\ IsBlank(analyzeRun.code) <=> ~analyzeRun.flagSet
        /\ IsBlank(analyzeRun.code) => analyzeRun.events = <<>>
        /\ analyzeRun.flagSet =>
              /\ SubSeq(analyzeRun.events, 1, 2) = <<"engine", "persist">>
              /\ analyzeRun.events = <<"engine", "persist", "display">>
                    <=> analyzeRun.outcome = "succeeded"
              /\ Len(analyzeRun.events) <= 3
        /\ analyzeRun.outcome /= "succeeded" => shown = analyzeRun.before
        /\ analyzing <=> analyzeRun.pc = "awaiting"

\* C29: a run that set the analyzing flag eventually clears it, whatever the
\* outcome; a run on a blank text sets no flag, calls no engine and sends no
\* request; the engine is called before the request is sent and the results
\* are displayed only after the request succeeded
AnalyzeRunDiscipline ==
    /\ []RunInOrder
    /\ analyzing ~> ~analyzing

\* a run set the flag, failed, and the flag is clear again
WitnessFlagClearedAfterFailure ==
    /\ Returned("failed")
    /\ analyzeRun.flagSet
    /\ ~analyzing

\* C30: after a run on a non-blank text completed successfully, the report
\* is displayed and the download is enabled, also when nothing was found
SuccessfulRunShowsReport ==
    (Returned("succeeded") /\ ~IsBlank(analyzeRun.code)) =>
        /\ ReportDisplayed
        /\ ~DownloadDisabled

====
